---------------------------- MODULE Spec2Model ----------------------------
(***************************************************************************)
(* Statistics queries over the base.events log (x402scan, services/cdp/    *)
(* sql/stats): getOverallStatistics, getBucketedStatistics,                *)
(* listTopFacilitators, getBucketedFacilitatorsStatistics, listTopSellers. *)
(*                                                                         *)
(* Each function validates its input, assembles one SQL query, awaits      *)
(* runBaseSqlQuery and reshapes the rows.  The SQL text is modelled as a   *)
(* record holding the clauses the template literal emits, and the engine   *)
(* as the evaluation of that record over the events table.                 *)
(*                                                                         *)
(* Values.  A Date is its getTime() in milliseconds.  A block_timestamp    *)
(* (ClickHouse DateTime) is in whole seconds.  An optional input field is  *)
(* None (undefined) or Some(v).  Inputs with numBuckets <= 0 or a          *)
(* fractional numBuckets (Infinity / NaN arithmetic) and dates before the  *)
(* epoch are not among the inputs enumerated here, and the bucketed        *)
(* queries are given startDate, endDate and numBuckets explicitly (the     *)
(* schema defaults read the clock).  One call is followed at a time: the   *)
(* functions share no state, and a query is evaluated over the table as it *)
(* is when the call is made.                                               *)
(***************************************************************************)
EXTENDS Integers, Sequences, FiniteSets

VARIABLES
    events,    \* base.events: the set of logged events
    pc,        \* "idle": no call in flight; "done": a call has ended
    fn,        \* the function that was called
    input,     \* its input argument (and pagination, for listTopSellers)
    queries,   \* the queries handed to runBaseSqlQuery during the call
    result,    \* what runBaseSqlQuery resolved to: None (null) or Some(rows)
    outcome,   \* "none", "returned" or "threw"
    output,    \* the returned value
    error      \* the message of the thrown Error

vars == <<events, pc, fn, input, queries, result, outcome, output, error>>

---------------------------------------------------------------------------
(* Bounds of the model *)

MaxTs == 3
MaxEvents == 2
MaxBuckets == 3
MaxLimit == 1
VariantTs == 1
SubSecondMs == 500
MaxDateTs == 5

---------------------------------------------------------------------------
(* Generic helpers *)

None == <<>>
Some(v) == <<v>>
IsSome(o) == Len(o) = 1
Get(o) == o[1]

Range(s) == {s[i] : i \in 1..Len(s)}
Max2(a, b) == IF a >= b THEN a ELSE b
Min2(a, b) == IF a <= b THEN a ELSE b

RECURSIVE SumOver(_, _)
SumOver(S, f) ==
    IF S = {} THEN 0
    ELSE LET x == CHOOSE y \in S : TRUE IN f[x] + SumOver(S \ {x}, f)

MaxOver(S, dflt) == IF S = {} THEN dflt ELSE CHOOSE m \in S : \A y \in S : y <= m

\* Math.floor(a / b) for b > 0
FloorDiv(a, b) == a \div b

\* Array.prototype.slice(0, n) for n >= 0
Slice0(s, n) == SubSeq(s, 1, Min2(n, Len(s)))

\* ORDER BY id ASC|DESC: the enumerations of the set S of rows that are
\* ordered by the column id; rows with equal keys come in any order.
Orderings(S, id, desc) ==
    LET n == Cardinality(S) IN
    { s \in [1..n -> S] :
        /\ \A i, j \in 1..n : i # j => s[i] # s[j]
        /\ \A i \in 1..n : \A j \in 1..n :
             i < j => IF desc THEN s[i][id] >= s[j][id]
                              ELSE s[i][id] <= s[j][id] }

---------------------------------------------------------------------------
(* Addresses, tokens and the known facilitators *)

USDC_ADDRESS == "0xUSDC"
OtherToken == "0xTOKEN"
TransferSignature == "Transfer(address,address,uint256)"
OtherSignature == "Approval(address,address,uint256)"

\* @/lib/schemas ethereumAddressSchema: the strings that are addresses
EthereumAddresses ==
    {USDC_ADDRESS, OtherToken, "0xA1", "0xA2", "0xB1", "0xB2",
     "0xF1", "0xF2", "0xF12", "0xF3", "0xEE"}
NotAnAddress == "not-an-address"
ethereumAddressSchema(a) == a \in EthereumAddresses

\* @/lib/facilitators: the known facilitators, in list order.  0xF12 is
\* listed under both Alpha and Beta.
facilitators ==
    << [name |-> "Alpha", addresses |-> <<"0xF1", "0xF12">>],
       [name |-> "Beta",  addresses |-> <<"0xF12", "0xF2">>],
       [name |-> "Gamma", addresses |-> <<"0xF3">>] >>

FacilitatorNames == {facilitators[i].name : i \in 1..Len(facilitators)}

\* facilitators.flatMap(f => f.addresses)
RECURSIVE FlatAddresses(_)
FlatAddresses(fs) ==
    IF fs = <<>> THEN <<>> ELSE Head(fs).addresses \o FlatAddresses(Tail(fs))

\* facilitatorNameMap.get(name): the facilitator of that name, or undefined
facilitatorNameMapGet(name) ==
    IF name \in FacilitatorNames
    THEN Some(CHOOSE f \in Range(facilitators) : f.name = name)
    ELSE None

---------------------------------------------------------------------------
(* The events table *)

Timestamps == 0..MaxTs

Ev(ts, n, sender, sig, token, from, to, value) ==
    [ transaction_hash |-> <<ts, sender, n>>,
      block_timestamp  |-> ts,
      transaction_from |-> sender,
      event_signature  |-> sig,
      address          |-> token,
      from             |-> from,
      to               |-> to,
      value            |-> value ]

ValueLimit == 1000000000

\* The events that may be logged.  A transaction hash fixes the block
\* timestamp and the sender of the transaction.  Transfers relayed by Alpha
\* and by Beta occur at every timestamp; one event of every other kind
\* occurs at VariantTs.  Alpha's transaction at VariantTs may hold three
\* transfers, one of them of ValueLimit.
EventUniverse ==
    { Ev(ts, 1, "0xF1", TransferSignature, USDC_ADDRESS, "0xB1", "0xA1", 5) : ts \in Timestamps }
    \cup
    { Ev(ts, 1, "0xF2", TransferSignature, USDC_ADDRESS, "0xB2", "0xA2", 7) : ts \in Timestamps }
    \cup
    { Ev(VariantTs, 1, "0xF1",  TransferSignature, USDC_ADDRESS, "0xB2", "0xA2", 3),
      Ev(VariantTs, 1, "0xF1",  TransferSignature, USDC_ADDRESS, "0xB1", "0xA1", ValueLimit),
      Ev(VariantTs, 1, "0xF12", TransferSignature, USDC_ADDRESS, "0xB1", "0xA1", 2),
      Ev(VariantTs, 1, "0xEE",  TransferSignature, USDC_ADDRESS, "0xB1", "0xA1", 4),
      Ev(VariantTs, 4, "0xF1",  TransferSignature, OtherToken,   "0xB1", "0xA1", 6),
      Ev(VariantTs, 3, "0xF1",  OtherSignature,    USDC_ADDRESS, "0xB1", "0xA1", 8) }

---------------------------------------------------------------------------
(* The SQL engine: evaluation of an assembled query over the events table *)

\* The WHERE clause
Selected(sql, evs) ==
    { e \in evs :
        /\ e.event_signature = TransferSignature
        /\ e.address \in Range(sql.tokens)
        /\ e.transaction_from \in Range(sql.senders)
        /\ (IsSome(sql.valueBelow) => e.value < Get(sql.valueBelow))
        /\ (IsSome(sql.recipients) => e.to \in Range(Get(sql.recipients)))
        /\ (IsSome(sql.since) => e.block_timestamp >= Get(sql.since))
        /\ (IsSome(sql.until) => e.block_timestamp <= Get(sql.until)) }

\* toUInt32(toUnixTimestamp(block_timestamp) / size) * size
SqlBucketStart(ts, size) == (ts \div size) * size

\* Mutant: the last facilitator that lists the address wins.
RECURSIVE CaseFacilitatorName_LastMatch(_, _)
CaseFacilitatorName_LastMatch(fs, sender) ==
    IF fs = <<>> THEN "Unknown"
    ELSE IF sender \in Range(fs[Len(fs)].addresses) THEN fs[Len(fs)].name
    ELSE CaseFacilitatorName_LastMatch(SubSeq(fs, 1, Len(fs) - 1), sender)

\* CASE WHEN transaction_from IN (...) THEN name ... ELSE 'Unknown' END:
\* the first facilitator, in list order, that lists the address
RECURSIVE CaseFacilitatorName(_, _)
CaseFacilitatorName(fs, sender) ==
    IF fs = <<>> THEN "Unknown"
    ELSE IF sender \in Range(Head(fs).addresses) THEN Head(fs).name
    ELSE CaseFacilitatorName(Tail(fs), sender)

\* The aggregates of one group of events
CountDistinct(S, column) == Cardinality({e[column] : e \in S})
SumValue(S) == SumOver(S, [e \in S |-> e.value])
MaxTimestamp(S) == MaxOver({e.block_timestamp : e \in S}, 0)

\* z.coerce.date() of a DateTime column: the Date of that second.
\* z.coerce.number() of a count or sum: exact for the values below 2^53 that
\* occur here.
CoerceDate(seconds) == seconds * 1000
CoerceNumber(n) == n


\* One row per bucket_start, ORDER BY bucket_start ASC (bucketed.ts 50-73)
BucketedRows(sql, evs) ==
    LET sel == Selected(sql, evs)
        Bucket(e) == SqlBucketStart(e.block_timestamp, sql.bucketSize)
        Group(b) == {e \in sel : Bucket(e) = b}
        Row(b) == [ bucket_start       |-> CoerceDate(b),
                    total_transactions |-> CoerceNumber(CountDistinct(Group(b), "transaction_hash")),
                    total_amount       |-> CoerceNumber(SumValue(Group(b))),
                    unique_buyers      |-> CoerceNumber(CountDistinct(Group(b), "from")),
                    unique_sellers     |-> CoerceNumber(CountDistinct(Group(b), "to")) ]
    IN  Orderings({Row(Bucket(e)) : e \in sel}, "bucket_start", FALSE)

\* The aggregates of all selected events, without GROUP BY (overall.ts 32-53).
\* Over no events the engine answers one row of zeros or, when configured
\* with empty_result_for_aggregation_by_empty_set, no row.
OverallRows(sql, evs) ==
    LET sel == Selected(sql, evs)
        row == [ total_transactions     |-> CoerceNumber(CountDistinct(sel, "transaction_hash")),
                 total_amount           |-> CoerceNumber(SumValue(sel)),
                 unique_buyers          |-> CoerceNumber(CountDistinct(sel, "from")),
                 unique_sellers         |-> CoerceNumber(CountDistinct(sel, "to")),
                 latest_block_timestamp |-> CoerceDate(MaxTimestamp(sel)) ]
    IN  IF sel = {} THEN {<<row>>, <<>>} ELSE {<<row>>}

\* ORDER BY ${sorting.id} ASC|DESC LIMIT n: the first n rows of an ordering
OrderByLimit(S, id, desc, n) ==
    {Slice0(s, n) : s \in Orderings(S, id, desc)}

\* One row per facilitator name, ordered and limited (bucketed.ts 170-211)
TopFacilitatorRows(sql, evs) ==
    LET sel == Selected(sql, evs)
        Name(e) == CaseFacilitatorName(sql.caseWhen, e.transaction_from)
        Group(n) == {e \in sel : Name(e) = n}
        Row(n) == [ unique_sellers         |-> CoerceNumber(CountDistinct(Group(n), "to")),
                    unique_buyers          |-> CoerceNumber(CountDistinct(Group(n), "from")),
                    tx_count               |-> CoerceNumber(CountDistinct(Group(n), "transaction_hash")),
                    total_amount           |-> CoerceNumber(SumValue(Group(n))),
                    latest_block_timestamp |-> CoerceDate(MaxTimestamp(Group(n))),
                    facilitator_name       |-> n ]
    IN  OrderByLimit({Row(Name(e)) : e \in sel}, sql.orderBy, sql.desc, sql.limit)

\* One row per (facilitator name, bucket_start), ORDER BY bucket_start ASC
\* (bucketed.ts 290-333)
BucketedFacilitatorRows(sql, evs) ==
    LET sel == Selected(sql, evs)
        Name(e) == CaseFacilitatorName(sql.caseWhen, e.transaction_from)
        Bucket(e) == SqlBucketStart(e.block_timestamp, sql.bucketSize)
        Group(n, b) == {e \in sel : Name(e) = n /\ Bucket(e) = b}
        Row(n, b) == [ bucket_start       |-> CoerceDate(b),
                       total_transactions |-> CoerceNumber(CountDistinct(Group(n, b), "transaction_hash")),
                       total_amount       |-> CoerceNumber(SumValue(Group(n, b))),
                       unique_buyers      |-> CoerceNumber(CountDistinct(Group(n, b), "from")),
                       unique_sellers     |-> CoerceNumber(CountDistinct(Group(n, b), "to")),
                       facilitator_name   |-> n ]
    IN  Orderings({Row(Name(e), Bucket(e)) : e \in sel}, "bucket_start", FALSE)

\* One row per recipient, ordered and limited (part_000 52-74); the array
\* groupArray(DISTINCT transaction_from) is held as the set of its elements
TopSellerRows(sql, evs) ==
    LET sel == Selected(sql, evs)
        Group(a) == {e \in sel : e.to = a}
        Row(a) == [ recipient              |-> a,
                    facilitators           |-> {e.transaction_from : e \in Group(a)},
                    tx_count               |-> CoerceNumber(CountDistinct(Group(a), "transaction_hash")),
                    total_amount           |-> CoerceNumber(SumValue(Group(a))),
                    latest_block_timestamp |-> CoerceDate(MaxTimestamp(Group(a))),
                    unique_buyers          |-> CoerceNumber(CountDistinct(Group(a), "from")) ]
    IN  OrderByLimit({Row(e.to) : e \in sel}, sql.orderBy, sql.desc, sql.limit)

QueryRows(sql, evs) ==
    CASE sql.kind = "bucketed"             -> BucketedRows(sql, evs)
      [] sql.kind = "overall"              -> OverallRows(sql, evs)
      [] sql.kind = "topFacilitators"      -> TopFacilitatorRows(sql, evs)
      [] sql.kind = "bucketedFacilitators" -> BucketedFacilitatorRows(sql, evs)
      [] sql.kind = "topSellers"           -> TopSellerRows(sql, evs)

\* runBaseSqlQuery(sql, schema): null, or the rows parsed by the schema
runBaseSqlQuery(sql, evs) ==
    {None} \cup {Some(rows) : rows \in QueryRows(sql, evs)}

---------------------------------------------------------------------------
(* Input schemas and SQL assembly helpers *)

\* ../lib formatDateForSql: the date as a DateTime literal, in whole seconds
formatDateForSql(date) == date \div 1000

\* ../lib baseQuerySchema: facilitators and tokens are arrays of addresses
baseQuerySchema(in) ==
    /\ \A i \in 1..Len(in.facilitators) : ethereumAddressSchema(in.facilitators[i])
    /\ \A i \in 1..Len(in.tokens) : ethereumAddressSchema(in.tokens[i])

\* z.array(ethereumAddressSchema).optional()
OptionalAddressArray(o) ==
    IsSome(o) => \A i \in 1..Len(Get(o)) : ethereumAddressSchema(Get(o)[i])

\* z.number()
ZNumber(v) == v.type = "number"

\* Mutant: the clause is emitted for an empty list too (IN ()).
RecipientClause_NoLengthCheck(addresses) ==
    IF IsSome(addresses) THEN Some(Get(addresses)) ELSE None

\* addresses && addresses.length > 0 ? `AND parameters['to']::String IN (...)` : ''
RecipientClause(addresses) ==
    IF IsSome(addresses) /\ Len(Get(addresses)) > 0 THEN Some(Get(addresses)) ELSE None

\* date ? `AND block_timestamp >= / <= '${formatDateForSql(date)}'` : ''
DateClause(date) ==
    IF IsSome(date) THEN Some(formatDateForSql(Get(date))) ELSE None

\* ../lib sortingSchema(ids): { id: one of ids, desc: boolean }
sortingSchema(ids, sorting) == sorting.id \in Range(ids) /\ sorting.desc \in BOOLEAN

\* parseResult.error.message, and new Error('Invalid input: ' + message)
ZodMessage == "ZodError"
InvalidInput == "Invalid input: "
\* Mutant: the ZodError message is thrown without the prefix.
InvalidInputError_Bare == <<ZodMessage>>

InvalidInputError == <<InvalidInput, ZodMessage>>

---------------------------------------------------------------------------
(* The end of a call *)

Ends(f, in, qs, res, oc, out, err) ==
    /\ pc' = "done"
    /\ fn' = f
    /\ input' = in
    /\ queries' = qs
    /\ result' = res
    /\ outcome' = oc
    /\ output' = out
    /\ error' = err
    /\ UNCHANGED events

Throws(f, in, err) == Ends(f, in, <<>>, None, "threw", <<>>, err)

---------------------------------------------------------------------------
(* getOverallStatistics (overall.ts) *)

overallStatisticsInputSchema(in) ==
    /\ baseQuerySchema(in)
    /\ OptionalAddressArray(in.addresses)

OverallSql(in) ==
    [ kind       |-> "overall",
      tokens     |-> in.tokens,
      senders    |-> in.facilitators,
      valueBelow |-> None,
      recipients |-> RecipientClause(in.addresses),
      since      |-> DateClause(in.startDate),
      until      |-> DateClause(in.endDate) ]

ZeroStatistics ==
    [ total_transactions |-> 0, total_amount |-> 0,
      unique_buyers |-> 0, unique_sellers |-> 0 ]

\* The record returned for the query result res; now is new Date()
OverallOutput(res, now) ==
    IF ~IsSome(res) \/ Len(Get(res)) = 0
    THEN [ total_transactions     |-> 0,
           total_amount           |-> 0,
           unique_buyers          |-> 0,
           unique_sellers         |-> 0,
           latest_block_timestamp |-> now ]
    ELSE LET data == Get(res)[1] IN
         [ total_transactions     |-> data.total_transactions,
           total_amount           |-> data.total_amount,
           unique_buyers          |-> data.unique_buyers,
           unique_sellers         |-> data.unique_sellers,
           latest_block_timestamp |-> data.latest_block_timestamp ]

---------------------------------------------------------------------------
(* getBucketedStatistics (bucketed.ts 9-132) *)

bucketedStatisticsInputSchema(in) ==
    /\ baseQuerySchema(in)
    /\ OptionalAddressArray(in.addresses)
    /\ ZNumber(in.numBuckets)

\* Math.max(1, Math.floor(Math.floor(timeRangeMs / numBuckets) / 1000))
BucketSizeSeconds(startDate, endDate, numBuckets) ==
    LET timeRangeMs == endDate - startDate
        bucketSizeMs == FloorDiv(timeRangeMs, numBuckets)
    IN  Max2(1, FloorDiv(bucketSizeMs, 1000))

\* Mutant: the first bucket starts at startDate, not aligned to the size.
FirstBucketStartTimestamp_Unaligned(startDate, size) == FloorDiv(startDate, 1000)

\* Math.floor(Math.floor(startDate.getTime() / 1000) / size) * size
FirstBucketStartTimestamp(startDate, size) ==
    LET startTimestamp == FloorDiv(startDate, 1000)
    IN  FloorDiv(startTimestamp, size) * size

\* Mutant: the query leaves out the bound on the transfer value.
BucketedSql_NoValueCap(in) ==
    [ kind       |-> "bucketed",
      bucketSize |-> BucketSizeSeconds(Get(in.startDate), Get(in.endDate), in.numBuckets.value),
      tokens     |-> in.tokens,
      senders    |-> in.facilitators,
      valueBelow |-> None,
      recipients |-> RecipientClause(in.addresses),
      since      |-> DateClause(in.startDate),
      until      |-> DateClause(in.endDate) ]

BucketedSql(in) ==
    [ kind       |-> "bucketed",
      bucketSize |-> BucketSizeSeconds(Get(in.startDate), Get(in.endDate), in.numBuckets.value),
      tokens     |-> in.tokens,
      senders    |-> in.facilitators,
      valueBelow |-> Some(ValueLimit),
      recipients |-> RecipientClause(in.addresses),
      since      |-> DateClause(in.startDate),
      until      |-> DateClause(in.endDate) ]

\* new Map(result.map(item => [item.bucket_start.getTime(), {...}])).get(key):
\* the last item with that key, or undefined
RECURSIVE DataMapGet(_, _)
DataMapGet(rows, key) ==
    IF rows = <<>> THEN None
    ELSE IF rows[Len(rows)].bucket_start = key THEN Some(rows[Len(rows)])
    ELSE DataMapGet(SubSeq(rows, 1, Len(rows) - 1), key)

\* Mutant: the map is looked up by the timestamp in seconds, not by getTime().
CompleteTimeSeries_SecondsKey(rows, first, size, numBuckets) ==
    [ k \in 1..numBuckets |->
        LET bucketStartTimestamp == first + (k - 1) * size
            existingData == DataMapGet(rows, bucketStartTimestamp)
        IN  IF IsSome(existingData)
            THEN Get(existingData)
            ELSE [ bucket_start       |-> bucketStartTimestamp * 1000,
                   total_transactions |-> 0,
                   total_amount       |-> 0,
                   unique_buyers      |-> 0,
                   unique_sellers     |-> 0 ] ]

\* The loop over i = 0 .. numBuckets - 1
CompleteTimeSeries(rows, first, size, numBuckets) ==
    [ k \in 1..numBuckets |->
        LET bucketStartTimestamp == first + (k - 1) * size
            bucketKey == bucketStartTimestamp * 1000
            existingData == DataMapGet(rows, bucketKey)
        IN  IF IsSome(existingData)
            THEN Get(existingData)
            ELSE [ bucket_start       |-> bucketKey,
                   total_transactions |-> 0,
                   total_amount       |-> 0,
                   unique_buyers      |-> 0,
                   unique_sellers     |-> 0 ] ]

\* Mutant: a null result is zero-filled like an empty one (result ?? []).
BucketedOutput_NullAsEmpty(in, res) ==
    LET rows == IF IsSome(res) THEN Get(res) ELSE <<>>
        size == BucketSizeSeconds(Get(in.startDate), Get(in.endDate), in.numBuckets.value)
        first == FirstBucketStartTimestamp(Get(in.startDate), size)
    IN  CompleteTimeSeries(rows, first, size, in.numBuckets.value)

BucketedOutput(in, res) ==
    IF ~IsSome(res) THEN <<>>
    ELSE LET size == BucketSizeSeconds(Get(in.startDate), Get(in.endDate), in.numBuckets.value)
             first == FirstBucketStartTimestamp(Get(in.startDate), size)
         IN  CompleteTimeSeries(Get(res), first, size, in.numBuckets.value)

---------------------------------------------------------------------------
(* listTopFacilitators (bucketed.ts 134-245) *)

listTopFacilitatorsSortIds ==
    <<"tx_count", "total_amount", "latest_block_timestamp", "unique_buyers", "unique_sellers">>

listTopFacilitatorsInputSchema(in) ==
    /\ ZNumber(in.limit)
    /\ sortingSchema(listTopFacilitatorsSortIds, in.sorting)
    /\ \A i \in 1..Len(in.tokens) : ethereumAddressSchema(in.tokens[i])

TopFacilitatorsSql(in) ==
    [ kind       |-> "topFacilitators",
      caseWhen   |-> facilitators,
      tokens     |-> in.tokens,
      senders    |-> FlatAddresses(facilitators),
      valueBelow |-> None,
      recipients |-> None,
      since      |-> DateClause(in.startDate),
      until      |-> DateClause(in.endDate),
      orderBy    |-> in.sorting.id,
      desc       |-> in.sorting.desc,
      limit      |-> in.limit.value + 1 ]

\* result.map(r => ({...r, facilitator: facilitatorNameMap.get(r.facilitator_name)!}))
WithFacilitator(r) ==
    [ unique_sellers         |-> r.unique_sellers,
      unique_buyers          |-> r.unique_buyers,
      tx_count               |-> r.tx_count,
      total_amount           |-> r.total_amount,
      latest_block_timestamp |-> r.latest_block_timestamp,
      facilitator_name       |-> r.facilitator_name,
      facilitator            |-> facilitatorNameMapGet(r.facilitator_name) ]

\* Mutant: the look-ahead row is not sliced off.
TopFacilitatorsOutput_NoSlice(in, res) ==
    IF ~IsSome(res) THEN <<>>
    ELSE [k \in 1..Len(Get(res)) |-> WithFacilitator(Get(res)[k])]

TopFacilitatorsOutput(in, res) ==
    IF ~IsSome(res) THEN <<>>
    ELSE Slice0([k \in 1..Len(Get(res)) |-> WithFacilitator(Get(res)[k])], in.limit.value)

---------------------------------------------------------------------------
(* getBucketedFacilitatorsStatistics (bucketed.ts 247-384) *)

bucketedFacilitatorsInputSchema(in) ==
    /\ baseQuerySchema(in)
    /\ ZNumber(in.numBuckets)

BucketedFacilitatorsSql(in) ==
    [ kind       |-> "bucketedFacilitators",
      caseWhen   |-> facilitators,
      bucketSize |-> BucketSizeSeconds(Get(in.startDate), Get(in.endDate), in.numBuckets.value),
      tokens     |-> in.tokens,
      senders    |-> FlatAddresses(facilitators),
      valueBelow |-> Some(ValueLimit),
      recipients |-> None,
      since      |-> DateClause(in.startDate),
      until      |-> DateClause(in.endDate) ]

\* const { bucket_start, facilitator_name, ...rest } = item
RestOf(item) ==
    [ total_transactions |-> item.total_transactions,
      total_amount       |-> item.total_amount,
      unique_buyers      |-> item.unique_buyers,
      unique_sellers     |-> item.unique_sellers ]

\* acc.find(b => b.bucket_start.getTime() === t): the index of the first
\* such entry, or 0
FindBucket(acc, t) ==
    IF \E k \in 1..Len(acc) : acc[k].bucket_start = t
    THEN CHOOSE k \in 1..Len(acc) :
           /\ acc[k].bucket_start = t
           /\ \A j \in 1..(k - 1) : acc[j].bucket_start # t
    ELSE 0

\* bucket.facilitators[name] = rest
SetKey(obj, name, rest) ==
    [ n \in (DOMAIN obj) \cup {name} |-> IF n = name THEN rest ELSE obj[n] ]

\* Mutant: find compares the Date objects themselves (b.bucket_start ===
\* bucket_start), which never matches, so every row opens a new entry.
CollapseStep_NoFind(acc, item) ==
    Append(acc, [ bucket_start |-> item.bucket_start,
                  facilitators |-> SetKey(<<>>, item.facilitator_name, RestOf(item)) ])

\* One step of the reduce callback
CollapseStep(acc, item) ==
    LET found == FindBucket(acc, item.bucket_start)
        acc1 == IF found = 0
                THEN Append(acc, [bucket_start |-> item.bucket_start, facilitators |-> <<>>])
                ELSE acc
        at == IF found = 0 THEN Len(acc1) ELSE found
    IN  [acc1 EXCEPT ![at].facilitators =
            SetKey(acc1[at].facilitators, item.facilitator_name, RestOf(item))]

\* result.reduce(callback, [])
RECURSIVE Collapse(_)
Collapse(rows) ==
    IF rows = <<>> THEN <<>>
    ELSE CollapseStep(Collapse(SubSeq(rows, 1, Len(rows) - 1)), rows[Len(rows)])

BucketedFacilitatorsOutput(in, res) ==
    IF ~IsSome(res) THEN <<>> ELSE Collapse(Get(res))

---------------------------------------------------------------------------
(* listTopSellers (part_000) *)

sellerSortIds == <<"tx_count", "total_amount", "latest_block_timestamp", "unique_buyers">>

listTopSellersInputSchema(in) ==
    /\ baseQuerySchema(in)
    /\ sortingSchema(sellerSortIds, in.sorting)
    /\ OptionalAddressArray(in.addresses)

TopSellersSql(in, pagination) ==
    [ kind       |-> "topSellers",
      tokens     |-> in.tokens,
      senders    |-> in.facilitators,
      valueBelow |-> None,
      recipients |-> RecipientClause(in.addresses),
      since      |-> DateClause(in.startDate),
      until      |-> DateClause(in.endDate),
      orderBy    |-> in.sorting.id,
      desc       |-> in.sorting.desc,
      limit      |-> pagination.limit + 1 ]

\* @/lib/pagination toPaginatedResponse({items, limit}), left uninterpreted
toPaginatedResponse(items, limit) ==
    [ toPaginatedResponse |-> [items |-> items, limit |-> limit] ]

TopSellersOutput(pagination, res) ==
    IF ~IsSome(res)
    THEN toPaginatedResponse(<<>>, pagination.limit)
    ELSE toPaginatedResponse(Get(res), pagination.limit)

---------------------------------------------------------------------------
(* Inputs *)

\* Optional dates fall on whole seconds within the range of the block
\* timestamps; the dates of the bucketed queries also fall SubSecondMs after
\* a second, up to MaxDateTs seconds.
Dates == {ts * 1000 : ts \in Timestamps}
OptionalDates == {None} \cup {Some(d) : d \in Dates}
BucketDates == {ts * 1000 + ms : ts \in 0..MaxDateTs, ms \in {0, SubSecondMs}}

AllFacilitatorAddresses == FlatAddresses(facilitators)

\* The facilitators and tokens of the base query
BaseQueries ==
    { [facilitators |-> AllFacilitatorAddresses, tokens |-> <<USDC_ADDRESS>>],
      [facilitators |-> <<"0xF1">>, tokens |-> <<USDC_ADDRESS, OtherToken>>] }

AddressLists == {None, Some(<<>>), Some(<<"0xA1">>)}
BadAddressList == Some(<<"0xA1", NotAnAddress>>)

Number(n) == [type |-> "number", value |-> n]
NumericString(n) == [type |-> "string", value |-> n]

Sortings ==
    { [id |-> "tx_count", desc |-> TRUE],
      [id |-> "latest_block_timestamp", desc |-> FALSE] }

OverallInputs ==
    { [ addresses    |-> a,
        startDate    |-> s,
        endDate      |-> e,
        facilitators |-> b.facilitators,
        tokens       |-> b.tokens ] :
      a \in AddressLists, s \in OptionalDates, e \in OptionalDates, b \in BaseQueries }
    \cup
    { [ addresses    |-> a,
        startDate    |-> None,
        endDate      |-> None,
        facilitators |-> AllFacilitatorAddresses,
        tokens       |-> t ] :
      a \in {None, BadAddressList}, t \in {<<NotAnAddress>>, <<USDC_ADDRESS>>} }

BucketedInputs ==
    { [ addresses    |-> a,
        startDate    |-> Some(s),
        endDate      |-> Some(e),
        numBuckets   |-> Number(n),
        facilitators |-> b.facilitators,
        tokens       |-> b.tokens ] :
      a \in AddressLists, s \in Dates, e \in Dates,
      n \in 1..MaxBuckets, b \in BaseQueries }
    \cup
    { [ addresses    |-> None,
        startDate    |-> Some(s),
        endDate      |-> Some(e),
        numBuckets   |-> Number(n),
        facilitators |-> AllFacilitatorAddresses,
        tokens       |-> <<USDC_ADDRESS>> ] :
      s \in BucketDates, e \in BucketDates, n \in 1..MaxBuckets }
    \cup
    { [ addresses    |-> a,
        startDate    |-> Some(0),
        endDate      |-> Some(MaxTs * 1000),
        numBuckets   |-> n,
        facilitators |-> AllFacilitatorAddresses,
        tokens       |-> <<USDC_ADDRESS>> ] :
      a \in {None, BadAddressList},
      n \in {Number(MaxBuckets), NumericString(MaxBuckets)} }

TopFacilitatorsInputs ==
    [ startDate : OptionalDates,
      endDate   : OptionalDates,
      limit     : {Number(n) : n \in 0..MaxLimit},
      sorting   : Sortings,
      tokens    : {<<USDC_ADDRESS>>} ]
    \cup
    [ startDate : {None},
      endDate   : {None},
      limit     : {Number(MaxLimit), NumericString(MaxLimit)},
      sorting   : {[id |-> "tx_count", desc |-> TRUE], [id |-> "recipient", desc |-> TRUE]},
      tokens    : {<<USDC_ADDRESS>>, <<NotAnAddress>>} ]

BucketedFacilitatorsInputs ==
    [ startDate    : {Some(d) : d \in BucketDates},
      endDate      : {Some(d) : d \in BucketDates},
      numBuckets   : {Number(n) : n \in 1..MaxBuckets},
      facilitators : {AllFacilitatorAddresses},
      tokens       : {<<USDC_ADDRESS>>} ]
    \cup
    [ startDate    : {Some(0)},
      endDate      : {Some(MaxTs * 1000)},
      numBuckets   : {Number(MaxBuckets), NumericString(MaxBuckets)},
      facilitators : {AllFacilitatorAddresses},
      tokens       : {<<USDC_ADDRESS>>, <<NotAnAddress>>} ]

TopSellersInputs ==
    { [ sorting      |-> o,
        addresses    |-> a,
        startDate    |-> s,
        endDate      |-> e,
        facilitators |-> b.facilitators,
        tokens       |-> b.tokens ] :
      o \in Sortings, a \in AddressLists, s \in OptionalDates, e \in OptionalDates,
      b \in BaseQueries }
    \cup
    { [ sorting      |-> o,
        addresses    |-> a,
        startDate    |-> None,
        endDate      |-> None,
        facilitators |-> AllFacilitatorAddresses,
        tokens       |-> <<USDC_ADDRESS>> ] :
      o \in {[id |-> "unique_sellers", desc |-> TRUE], [id |-> "tx_count", desc |-> TRUE]},
      a \in {None, BadAddressList} }

Paginations == [limit : 0..MaxLimit]

---------------------------------------------------------------------------
(* Actions *)

Init ==
    /\ events = {}
    /\ pc = "idle"
    /\ fn = "none"
    /\ input = <<>>
    /\ queries = <<>>
    /\ result = None
    /\ outcome = "none"
    /\ output = <<>>
    /\ error = <<>>

\* An event is appended to base.events.
AppendEvent ==
    /\ pc = "idle"
    /\ Cardinality(events) < MaxEvents
    /\ \E e \in EventUniverse \ events : events' = events \cup {e}
    /\ UNCHANGED <<pc, fn, input, queries, result, outcome, output, error>>

GetOverallStatistics ==
    /\ pc = "idle"
    /\ \E in \in OverallInputs :
         IF ~overallStatisticsInputSchema(in)
         THEN Throws("getOverallStatistics", in, InvalidInputError)
         ELSE LET sql == OverallSql(in) IN
              \E res \in runBaseSqlQuery(sql, events) :
                Ends("getOverallStatistics", in, <<sql>>, res, "returned",
                     OverallOutput(res, MaxTs * 1000), <<>>)

GetBucketedStatistics ==
    /\ pc = "idle"
    /\ \E in \in BucketedInputs :
         IF ~bucketedStatisticsInputSchema(in)
         THEN Throws("getBucketedStatistics", in, InvalidInputError)
         ELSE LET sql == BucketedSql(in) IN
              \E res \in runBaseSqlQuery(sql, events) :
                Ends("getBucketedStatistics", in, <<sql>>, res, "returned",
                     BucketedOutput(in, res), <<>>)

\* listTopFacilitatorsInputSchema.parse(input) throws the ZodError itself.
ListTopFacilitators ==
    /\ pc = "idle"
    /\ \E in \in TopFacilitatorsInputs :
         IF ~listTopFacilitatorsInputSchema(in)
         THEN Throws("listTopFacilitators", in, <<ZodMessage>>)
         ELSE LET sql == TopFacilitatorsSql(in) IN
              \E res \in runBaseSqlQuery(sql, events) :
                Ends("listTopFacilitators", in, <<sql>>, res, "returned",
                     TopFacilitatorsOutput(in, res), <<>>)

GetBucketedFacilitatorsStatistics ==
    /\ pc = "idle"
    /\ \E in \in BucketedFacilitatorsInputs :
         IF ~bucketedFacilitatorsInputSchema(in)
         THEN Throws("getBucketedFacilitatorsStatistics", in, InvalidInputError)
         ELSE LET sql == BucketedFacilitatorsSql(in) IN
              \E res \in runBaseSqlQuery(sql, events) :
                Ends("getBucketedFacilitatorsStatistics", in, <<sql>>, res, "returned",
                     BucketedFacilitatorsOutput(in, res), <<>>)

ListTopSellers ==
    /\ pc = "idle"
    /\ \E in \in TopSellersInputs, pagination \in Paginations :
         LET args == [input |-> in, pagination |-> pagination] IN
         IF ~listTopSellersInputSchema(in)
         THEN Throws("listTopSellers", args, InvalidInputError)
         ELSE LET sql == TopSellersSql(in, pagination) IN
              \E res \in runBaseSqlQuery(sql, events) :
                Ends("listTopSellers", args, <<sql>>, res, "returned",
                     TopSellersOutput(pagination, res), <<>>)

\* The caller has taken the value or the error of the call.
Settle ==
    /\ pc = "done"
    /\ pc' = "idle"
    /\ fn' = "none"
    /\ input' = <<>>
    /\ queries' = <<>>
    /\ result' = None
    /\ outcome' = "none"
    /\ output' = <<>>
    /\ error' = <<>>
    /\ UNCHANGED events

Next ==
    \/ AppendEvent
    \/ GetOverallStatistics
    \/ GetBucketedStatistics
    \/ ListTopFacilitators
    \/ GetBucketedFacilitatorsStatistics
    \/ ListTopSellers
    \/ Settle

Spec == Init /\ [][Next]_vars

---------------------------------------------------------------------------
(* Properties *)

Returned(f) == pc = "done" /\ fn = f /\ outcome = "returned"

\* The bucket starts, as Dates, of the series that was returned
OutputStarts == {output[k].bucket_start : k \in 1..Len(output)}

\* C1: getBucketedStatistics zero-fills missing buckets.  For a valid input
\* and a non-null query result the series has exactly numBuckets entries,
\* entry i (from 0) starts at firstBucketStartTimestamp + i * bucketSizeSeconds,
\* an entry that starts where a query row starts is that row unchanged, and
\* every other entry has the four statistics equal to 0.
C1_ZeroFill ==
    (Returned("getBucketedStatistics") /\ IsSome(result)) =>
        LET rows == Get(result)
            n == input.numBuckets.value
            size == BucketSizeSeconds(Get(input.startDate), Get(input.endDate), n)
            first == FirstBucketStartTimestamp(Get(input.startDate), size)
        IN  /\ Len(output) = n
            /\ \A k \in 1..n :
                 /\ output[k].bucket_start = (first + (k - 1) * size) * 1000
                 /\ \A j \in 1..Len(rows) :
                      rows[j].bucket_start = output[k].bucket_start => output[k] = rows[j]
                 /\ (\A j \in 1..Len(rows) : rows[j].bucket_start # output[k].bucket_start)
                      => RestOf(output[k]) = ZeroStatistics

\* C1 witness: a returned series in which one entry is a query row and
\* another one is zero-filled.
C1_Witness ==
    /\ Returned("getBucketedStatistics")
    /\ IsSome(result)
    /\ \E k, z \in 1..Len(output) :
         /\ output[k] \in Range(Get(result))
         /\ output[k].total_transactions > 0
         /\ output[z].total_transactions = 0

\* The events of the table that pass the filters of getBucketedStatistics and
\* lie within [startDate, endDate]
EventsInInterval ==
    { e \in events :
        /\ e.event_signature = TransferSignature
        /\ e.address \in Range(input.tokens)
        /\ e.transaction_from \in Range(input.facilitators)
        /\ e.value < ValueLimit
        /\ (IsSome(input.addresses) /\ Len(Get(input.addresses)) > 0
              => e.to \in Range(Get(input.addresses)))
        /\ Get(input.startDate) <= e.block_timestamp * 1000
        /\ e.block_timestamp * 1000 <= Get(input.endDate) }

\* C2: the series returned by getBucketedStatistics is complete over the
\* requested interval.  For startDate <= endDate the bucket start that the
\* SQL expression assigns to any event within the interval is one of the
\* generated bucket starts, and every row of the query result appears in the
\* output.
C2_CompleteSeries ==
    (/\ Returned("getBucketedStatistics")
     /\ IsSome(result)
     /\ Get(input.startDate) <= Get(input.endDate)) =>
        /\ \A e \in EventsInInterval :
             CoerceDate(SqlBucketStart(e.block_timestamp, queries[1].bucketSize))
                \in OutputStarts
        /\ \A j \in 1..Len(Get(result)) : Get(result)[j] \in Range(output)

ValidatedFunctions ==
    { "getOverallStatistics", "getBucketedStatistics",
      "getBucketedFacilitatorsStatistics", "listTopSellers" }

\* Whether the input of the call passes the input schema of its function
InputPassesSchema ==
    CASE fn = "getOverallStatistics"  -> overallStatisticsInputSchema(input)
      [] fn = "getBucketedStatistics" -> bucketedStatisticsInputSchema(input)
      [] fn = "getBucketedFacilitatorsStatistics" -> bucketedFacilitatorsInputSchema(input)
      [] fn = "listTopSellers"        -> listTopSellersInputSchema(input.input)
      [] fn = "listTopFacilitators"   -> listTopFacilitatorsInputSchema(input)

\* C4: input is validated before any query is issued.  When the input of
\* getOverallStatistics, getBucketedStatistics,
\* getBucketedFacilitatorsStatistics or listTopSellers fails its schema, the
\* call ends with an error whose message starts with 'Invalid input: ' and
\* runBaseSqlQuery is not called; a query is issued only after a successful
\* parse, and at most one per call.
C4_ValidatedBeforeQuery ==
    (pc = "done" /\ fn \in ValidatedFunctions) =>
        /\ ~InputPassesSchema =>
             /\ outcome = "threw"
             /\ Len(error) >= 1
             /\ error[1] = "Invalid input: "
             /\ queries = <<>>
        /\ queries # <<>> => InputPassesSchema
        /\ Len(queries) <= 1
        /\ InputPassesSchema => Len(queries) = 1

\* C4 witness: a listTopSellers call whose input failed the schema.
C4_Witness ==
    /\ pc = "done"
    /\ fn = "listTopSellers"
    /\ ~listTopSellersInputSchema(input.input)
    /\ outcome = "threw"

\* C5: a null query result is an empty answer, never an error.  On null,
\* getBucketedStatistics, listTopFacilitators and
\* getBucketedFacilitatorsStatistics return an empty list (without
\* zero-filling), listTopSellers returns the paginated response of an empty
\* item list and the same limit, and getOverallStatistics returns all-zero
\* statistics; getOverallStatistics returns the same for an empty list and
\* otherwise exactly the five fields of the first row.
C5_NullIsEmpty ==
    (pc = "done" /\ queries # <<>>) =>
        /\ ~IsSome(result) => (outcome = "returned" /\ error = <<>>)
        /\ (~IsSome(result) /\ fn \in { "getBucketedStatistics", "listTopFacilitators",
                                        "getBucketedFacilitatorsStatistics" })
              => output = <<>>
        /\ (~IsSome(result) /\ fn = "listTopSellers")
              => output = toPaginatedResponse(<<>>, input.pagination.limit)
        /\ fn = "getOverallStatistics" =>
              IF ~IsSome(result) \/ Get(result) = <<>>
              THEN RestOf(output) = ZeroStatistics
              ELSE output = Get(result)[1]

\* C5 witness: getBucketedStatistics has returned on a null result.
C5_Witness ==
    /\ Returned("getBucketedStatistics")
    /\ ~IsSome(result)
    /\ input.numBuckets.value >= 2

\* A returned row without the facilitator field that the mapping added
WithoutFacilitator(r) == [f \in (DOMAIN r) \ {"facilitator"} |-> r[f]]

\* C6: pagination slicing.  listTopFacilitators requests limit + 1 rows and
\* returns exactly the first min(limit, rows returned) rows of the result in
\* the query's order, never more than limit; listTopSellers requests
\* limit + 1 rows and passes all returned rows and the unchanged limit to
\* toPaginatedResponse.
C6_PaginationSlice ==
    /\ Returned("listTopFacilitators") =>
         LET limit == input.limit.value IN
         /\ queries[1].limit = limit + 1
         /\ IsSome(result) =>
              LET rows == Get(result) IN
              /\ Len(rows) <= limit + 1
              /\ Len(output) = Min2(limit, Len(rows))
              /\ Len(output) <= limit
              /\ \A k \in 1..Len(output) : WithoutFacilitator(output[k]) = rows[k]
    /\ Returned("listTopSellers") =>
         /\ queries[1].limit = input.pagination.limit + 1
         /\ IsSome(result) =>
              /\ Len(Get(result)) <= input.pagination.limit + 1
              /\ output = toPaginatedResponse(Get(result), input.pagination.limit)

\* C6 witness: the query of listTopFacilitators returned the look-ahead row,
\* and the returned list is not empty.
C6_Witness ==
    /\ Returned("listTopFacilitators")
    /\ IsSome(result)
    /\ input.limit.value >= 1
    /\ Len(Get(result)) = input.limit.value + 1
    /\ Len(output) = input.limit.value

\* The index of the first row that starts at t
FirstRowAt(rows, t) ==
    CHOOSE k \in 1..Len(rows) :
      /\ rows[k].bucket_start = t
      /\ \A j \in 1..(k - 1) : rows[j].bucket_start # t

\* The number of facilitator keys over all entries of the returned list
FacilitatorKeys ==
    SumOver(1..Len(output),
            [k \in 1..Len(output) |-> Cardinality(DOMAIN output[k].facilitators)])

\* C7: grouping in getBucketedFacilitatorsStatistics.  For a non-null result
\* the returned list has exactly one entry per distinct bucket_start of the
\* rows, in order of first appearance and ascending; for every row the entry
\* of its bucket_start holds under facilitators[facilitator_name] the row's
\* four statistics; and with unique (bucket_start, facilitator_name) pairs
\* the number of facilitator keys over all entries is the number of rows.
C7_Grouping ==
    (Returned("getBucketedFacilitatorsStatistics") /\ IsSome(result)) =>
        LET rows == Get(result) IN
        /\ OutputStarts = {rows[j].bucket_start : j \in 1..Len(rows)}
        /\ \A k, l \in 1..Len(output) :
             k < l =>
               /\ output[k].bucket_start # output[l].bucket_start
               /\ output[k].bucket_start < output[l].bucket_start
               /\ FirstRowAt(rows, output[k].bucket_start)
                    < FirstRowAt(rows, output[l].bucket_start)
        /\ \A j \in 1..Len(rows) :
             \E k \in 1..Len(output) :
               /\ output[k].bucket_start = rows[j].bucket_start
               /\ rows[j].facilitator_name \in DOMAIN output[k].facilitators
               /\ output[k].facilitators[rows[j].facilitator_name] = RestOf(rows[j])
        /\ (\A i, j \in 1..Len(rows) :
              (/\ rows[i].bucket_start = rows[j].bucket_start
               /\ rows[i].facilitator_name = rows[j].facilitator_name) => i = j)
             => FacilitatorKeys = Len(rows)

\* C7 witness: two rows of the same bucket were collapsed into one entry.
C7_Witness ==
    /\ Returned("getBucketedFacilitatorsStatistics")
    /\ IsSome(result)
    /\ Len(Get(result)) >= 2
    /\ Len(output) = 1
    /\ Cardinality(DOMAIN output[1].facilitators) = 2

\* The name of the first facilitator, in list order, that lists the address
FirstListing(a) ==
    LET listing == {i \in 1..Len(facilitators) : a \in Range(facilitators[i].addresses)}
    IN  facilitators[CHOOSE i \in listing : \A j \in listing : i <= j].name

\* C8: mapping addresses to named facilitators in listTopFacilitators.  No
\* returned row is named 'Unknown'; the facilitator field of every returned
\* row is defined and is the known facilitator of the row's facilitator_name;
\* and the transactions sent from an address listed under several
\* facilitators are counted under the first of them in list order.
C8_NamedFacilitators ==
    (Returned("listTopFacilitators") /\ IsSome(result)) =>
        LET rows == Get(result)
            sel == Selected(queries[1], events)
        IN  /\ \A e \in sel :
                 \E i \in 1..Len(facilitators) :
                   e.transaction_from \in Range(facilitators[i].addresses)
            /\ \A j \in 1..Len(rows) :
                 /\ rows[j].facilitator_name # "Unknown"
                 /\ rows[j].tx_count =
                      Cardinality({ e.transaction_hash : e \in
                        {x \in sel : FirstListing(x.transaction_from) = rows[j].facilitator_name} })
            /\ \A k \in 1..Len(output) :
                 /\ output[k].facilitator_name # "Unknown"
                 /\ IsSome(output[k].facilitator)
                 /\ Get(output[k].facilitator) \in Range(facilitators)
                 /\ Get(output[k].facilitator).name = output[k].facilitator_name

\* C8 witness: a transfer sent from the address listed under Alpha and Beta
\* was selected, and the returned list names Alpha.
C8_Witness ==
    /\ Returned("listTopFacilitators")
    /\ IsSome(result)
    /\ \E e \in Selected(queries[1], events) : e.transaction_from = "0xF12"
    /\ \E k \in 1..Len(output) : output[k].facilitator_name = "Alpha"

\* C9: getBucketedFacilitatorsStatistics adds zeros for missing buckets.  For
\* a valid input and a non-null result the output has an entry for each of
\* the numBuckets expected time buckets, also for those without a row.
C9_ZeroFilledFacilitators ==
    (Returned("getBucketedFacilitatorsStatistics") /\ IsSome(result)) =>
        LET n == input.numBuckets.value
            size == queries[1].bucketSize
            first == FirstBucketStartTimestamp(Get(input.startDate), size)
        IN  /\ Len(output) = n
            /\ \A k \in 1..n : (first + (k - 1) * size) * 1000 \in OutputStarts

\* Whether the input asks for a recipient filter
RecipientsGiven(in) == IsSome(in.addresses) /\ Len(Get(in.addresses)) > 0

\* The events that the filters of the input select; capped when the
\* function also requires a value below ValueLimit.  The date bounds compare
\* block_timestamp with the date as formatted for SQL.
ExpectedSelection(in, capped) ==
    { e \in events :
        /\ e.event_signature = "Transfer(address,address,uint256)"
        /\ \E i \in 1..Len(in.tokens) : e.address = in.tokens[i]
        /\ \E i \in 1..Len(in.facilitators) : e.transaction_from = in.facilitators[i]
        /\ (capped => e.value < ValueLimit)
        /\ (RecipientsGiven(in) => \E i \in 1..Len(Get(in.addresses)) : e.to = Get(in.addresses)[i])
        /\ (IsSome(in.startDate) => e.block_timestamp >= formatDateForSql(Get(in.startDate)))
        /\ (IsSome(in.endDate) => e.block_timestamp <= formatDateForSql(Get(in.endDate))) }

SameOverallInput ==
    [ addresses    |-> input.addresses,
      startDate    |-> input.startDate,
      endDate      |-> input.endDate,
      facilitators |-> input.facilitators,
      tokens       |-> input.tokens ]

\* The events that getOverallStatistics counts for that input over the table
OverallSelection == Selected(OverallSql(SameOverallInput), events)

\* The values of total_transactions that getOverallStatistics returns for
\* that input over the table
OverallTotals ==
    { OverallOutput(Some(rows), 0).total_transactions :
        rows \in OverallRows(OverallSql(SameOverallInput), events) }

\* The sum of total_transactions over the returned series
SeriesTransactions ==
    SumOver(1..Len(output), [k \in 1..Len(output) |-> output[k].total_transactions])

\* Every event that getBucketedStatistics counted has a value below
\* ValueLimit and is counted by getOverallStatistics, and the series sums to
\* at most the overall total_transactions.
BucketedWithinOverall ==
    /\ \A e \in Selected(queries[1], events) :
         e.value < 1000000000 /\ e \in OverallSelection
    /\ \A total \in OverallTotals : SeriesTransactions <= total

\* No row of the bucketed query starts outside the generated buckets
NoRowDropped == \A j \in 1..Len(Get(result)) : Get(result)[j] \in Range(output)

===========================================================================
